---- MODULE Spec2Model ----
(***************************************************************************)
(* Model of src/main.py, the CWE search service: nine tool functions that  *)
(* normalise identifier strings, issue HTTP GETs through get_requests and  *)
(* reconcile the responses into one returned value.                        *)
(*                                                                         *)
(* A Python str is a sequence of one-character strings.  The character     *)
(* written "^2" stands for U+00B2 SUPERSCRIPT TWO, for which str.isdigit() *)
(* is True and str.isdecimal() is False.                                   *)
(* A Python/JSON value is a record [t |-> <type name>, v |-> <payload>].   *)
(***************************************************************************)
EXTENDS Integers, Sequences, FiniteSets, TLC

VARIABLES tool, ids, view, primary, pc, result, gets

vars == <<tool, ids, view, primary, pc, result, gets>>

(* ------------------------------ bounds -------------------------------- *)

\* largest number of comma-separated tokens in an input string
MaxTokens == 2

(* --------------------------- Python str ------------------------------- *)

Whitespace == {" "}

DecimalDigits == {"0", "1", "2", "3", "4", "5", "6", "7", "8", "9"}

\* characters c with c.isdigit(): the decimal digits and the superscripts
DigitChars == DecimalDigits \cup {"^2"}

\* the letters that occur in the inputs, with their upper-case forms
UpperOf == [a |-> "A", c |-> "C", e |-> "E", l |-> "L", w |-> "W"]

\* the upper-case letters, with their lower-case forms
LowerOf == [A |-> "a", C |-> "c", E |-> "e", L |-> "l", W |-> "w"]

\* str.upper()
upper(s) == [i \in 1..Len(s) |-> IF s[i] \in DOMAIN UpperOf THEN UpperOf[s[i]] ELSE s[i]]

\* str.lower()
lower(s) == [i \in 1..Len(s) |-> IF s[i] \in DOMAIN LowerOf THEN LowerOf[s[i]] ELSE s[i]]

RECURSIVE lstrip(_)
lstrip(s) == IF s # <<>> /\ Head(s) \in Whitespace THEN lstrip(Tail(s)) ELSE s

RECURSIVE rstrip(_)
rstrip(s) ==
    IF s # <<>> /\ s[Len(s)] \in Whitespace THEN rstrip(SubSeq(s, 1, Len(s) - 1)) ELSE s

\* a strip that drops the first character without looking at it
strip_dropfirst(s) == rstrip(IF s # <<>> THEN Tail(s) ELSE s)

\* str.strip()
strip(s) == rstrip(lstrip(s))

StartsWith(s, p) == Len(s) >= Len(p) /\ SubSeq(s, 1, Len(p)) = p

\* str.replace(old, ""): every non-overlapping occurrence, left to right
RECURSIVE remove(_, _)
remove(s, old) ==
    IF s = <<>> THEN <<>>
    ELSE IF StartsWith(s, old) THEN remove(SubSeq(s, Len(old) + 1, Len(s)), old)
    ELSE <<Head(s)>> \o remove(Tail(s), old)

\* str.isdigit()
isdigit(s) == s # <<>> /\ \A i \in 1..Len(s) : s[i] \in DigitChars

\* str.split(',')
RECURSIVE split(_)
split(s) ==
    IF \A i \in 1..Len(s) : s[i] # ","
    THEN <<s>>
    ELSE LET i == CHOOSE k \in 1..Len(s) : s[k] = "," /\ \A j \in 1..(k - 1) : s[j] # ","
         IN  <<SubSeq(s, 1, i - 1)>> \o split(SubSeq(s, i + 1, Len(s)))

\* the text of a str, for f-strings and dictionary keys
RECURSIVE Str(_)
Str(s) == IF s = <<>> THEN "" ELSE Head(s) \o Str(Tail(s))

CWE_PREFIX == <<"C", "W", "E", "-">>

\* id_str.strip().upper().replace('CWE-', '')
clean(id_str) == remove(upper(strip(id_str)), CWE_PREFIX)

\* a comparison with "all" that forgets to trim and lower-case
is_all_exact(s) == s = <<"a", "l", "l">>

\* ids.strip().lower() == "all"
is_all(s) == lower(strip(s)) = <<"a", "l", "l">>

(* ------------------------ Python / JSON values ------------------------ *)

Dict(f) == [t |-> "dict", v |-> f]

List(q) == [t |-> "list", v |-> q]

Number(n) == [t |-> "int", v |-> n]

\* the value of a status_code that is None
None == 0

\* an optional argument that was not passed
Absent == "None"

EmptyDict == [k \in {} |-> k]

\* `key in x` raises TypeError unless x is a container
in_raises(x) == x.t \notin {"dict", "list"}

\* `key in x` for a dict (its keys) or a list (its elements)
contains(key, x) ==
    IF x.t = "dict" THEN key \in DOMAIN x.v ELSE \E i \in 1..Len(x.v) : x.v[i] = key

\* d.get(key, default)
get(d, key, default) == IF key \in DOMAIN d THEN d[key] ELSE default

Return(x) == [kind |-> "return", value |-> x]

Raise(name) == [kind |-> "raise", value |-> [t |-> name, v |-> <<>>]]

NoResult == [kind |-> "none", value |-> [t |-> "NoneType", v |-> <<>>]]

(* ----------------------------- upstream ------------------------------- *)

BASE_URL == "https://cwe-api.mitre.org/api/v1/cwe/"

\* what one GET meets: no response at all (status None), or a status and a body
Resp(status, body) == [status |-> status, body |-> body]

NoBody == [t |-> "NoneType", v |-> <<>>]

\* 2xx bodies that are an object holding a list under the resource key `key`
KeyedBodies(key) == {Dict(key :> <<"a">>), Dict(key :> <<"b">>), Dict(key :> <<>>)}

\* 2xx bodies of another shape: an object without the key, a number, an array
Unkeyed == Dict([Detail |-> "none"])

Scalar == Number(5)

Array == List(<<"p">>)

Failures == {Resp(None, NoBody), Resp(404, NoBody), Resp(500, NoBody)}

\* what a GET of a collection endpoint (weakness/, category/, view/) may meet
CollectionResponses(key) ==
    Failures \cup {Resp(200, b) : b \in KeyedBodies(key) \cup {Unkeyed, Scalar}}

\* what a GET of any other endpoint may meet
Responses(key) ==
    Failures \cup {Resp(200, b) : b \in KeyedBodies(key) \cup {Unkeyed, Scalar, Array}}

\* get_requests(endpoint, params, t_out) when its GET meets `resp`: the value it
\* returns, and the GET it issued, session.get(url, params=params, timeout=t_out)
get_requests(endpoint, params, t_out, resp) ==
    LET url == BASE_URL \o endpoint
    IN  [get |-> [url |-> url, params |-> params, timeout |-> t_out, response |-> resp],
         value |->
             IF resp.status = None
             THEN Dict([error |-> "API request to " \o url \o " failed: no response",
                        status_code |-> None])
             ELSE IF resp.status >= 400
             THEN Dict([error |-> "API request to " \o url \o " failed: HTTP error",
                        status_code |-> resp.status])
             ELSE resp.body]

DEFAULT_TIMEOUT == 15

ALL_WEAKNESSES_TIMEOUT == 60

(* ------------------------------ tools --------------------------------- *)

\* what a tool invocation leaves behind: how it ended and the GETs it issued
Out(ret, log) == [ret |-> ret, gets |-> log]

\* get_cwe_content_version()
get_cwe_content_version(outs) ==
    LET r == get_requests("version", Absent, DEFAULT_TIMEOUT, outs[1])
    IN  Out(Return(r.value), <<r.get>>)

\* the tokens of `s`, cleaned
cleaned(s) == LET pieces == split(s) IN [i \in 1..Len(pieces) |-> clean(pieces[i])]

\* the id_list of get_cwe_info and get_cwe_weakness: the cleaned tokens that are digits
digit_ids(s) == LET keep(c) == isdigit(c) IN SelectSeq(cleaned(s), keep)

\* the id_list of get_cwe_category and get_cwe_view: the non-empty cleaned tokens
nonempty_ids(s) == LET keep(c) == c # <<>> IN SelectSeq(cleaned(s), keep)

\* the fetch loop of get_cwe_info, from the state `acc` on
RECURSIVE info_loop(_, _, _)
info_loop(id_list, outs, acc) ==
    LET i == Len(acc.gets) + 1
    IN  IF i > Len(id_list) THEN Out(Return(Dict(acc.results)), acc.gets)
        ELSE LET cwe_id == Str(id_list[i])
                 r == get_requests(cwe_id, Absent, DEFAULT_TIMEOUT, outs[i])
                 response == r.value
                 log == Append(acc.gets, r.get)
             IN  IF in_raises(response) THEN Out(Raise("TypeError"), log)
                 ELSE IF contains("error", response)
                 THEN IF response.t # "dict" THEN Out(Raise("TypeError"), log)
                      ELSE info_loop(id_list, outs,
                               [results |-> (cwe_id :> Dict(("cwe_id" :> cwe_id) @@ response.v))
                                            @@ acc.results,
                                gets |-> log])
                 ELSE info_loop(id_list, outs,
                          [results |-> (cwe_id :> response) @@ acc.results, gets |-> log])

\* get_cwe_info(ids)
get_cwe_info(s, outs) ==
    LET pieces == split(s)
        bad == {i \in 1..Len(pieces) : ~isdigit(clean(pieces[i]))}
    IN  IF bad # {}
        THEN LET i == CHOOSE k \in bad : \A j \in bad : k <= j
             IN  Out(Return(Dict([error |-> "Invalid CWE ID format: " \o Str(pieces[i]),
                                  status_code |-> 400])), <<>>)
        ELSE IF digit_ids(s) = <<>>
        THEN Out(Return(Dict([error |-> "No valid CWE IDs provided", status_code |-> 400])),
                 <<>>)
        ELSE info_loop(digit_ids(s), outs, [results |-> EmptyDict, gets |-> <<>>])

\* the fetch loop of get_cwe_weakness / get_cwe_category / get_cwe_view, from `acc` on;
\* `family` is the path prefix, `key` the resource key, `tag` the name of the id field
RECURSIVE fetch_loop(_, _, _, _, _, _)
fetch_loop(family, key, tag, id_list, outs, acc) ==
    LET i == Len(acc.gets) + 1
    IN  IF i > Len(id_list) THEN acc
        ELSE LET id == Str(id_list[i])
                 endpoint == family \o "/" \o id
                 r == get_requests(endpoint, Absent, DEFAULT_TIMEOUT, outs[i])
                 response == r.value
                 log == Append(acc.gets, r.get)
             IN  IF in_raises(response) THEN [acc EXCEPT !.gets = log, !.raised = TRUE]
                 ELSE IF contains("error", response)
                 THEN IF response.t # "dict" THEN [acc EXCEPT !.gets = log, !.raised = TRUE]
                      ELSE fetch_loop(family, key, tag, id_list, outs,
                               [acc EXCEPT !.gets = log,
                                           !.errors = Append(@,
                                               (tag :> id) @@
                                               [error |-> response.v.error,
                                                status_code |->
                                                    get(response.v, "status_code", 500)])])
                 ELSE IF contains(key, response)
                 THEN IF response.t # "dict" THEN [acc EXCEPT !.gets = log, !.raised = TRUE]
                      ELSE fetch_loop(family, key, tag, id_list, outs,
                               [acc EXCEPT !.gets = log, !.items = @ \o response.v[key]])
                 ELSE fetch_loop(family, key, tag, id_list, outs,
                          [acc EXCEPT !.gets = log,
                                      !.errors = Append(@,
                                          (tag :> id) @@
                                          [error |-> "Unexpected API response format",
                                           status_code |-> 500])])

\* "Return results or errors": the envelope built from the items and the errors
reconcile(key, items, errors) ==
    IF items # <<>>
    THEN IF errors # <<>> THEN Dict((key :> items) @@ [errors |-> errors])
         ELSE Dict(key :> items)
    ELSE Dict([errors |-> errors,
               status_code |-> IF \E i \in 1..Len(errors) : errors[i].status_code = 404
                               THEN 404 ELSE 500])

\* the part the three collection tools share, after the "all" case
collect(family, key, tag, what, id_list, outs) ==
    IF id_list = <<>>
    THEN Out(Return(Dict([error |-> "No valid " \o what \o " IDs provided",
                          status_code |-> 400])), <<>>)
    ELSE LET acc == fetch_loop(family, key, tag, id_list, outs,
                        [items |-> <<>>, errors |-> <<>>, gets |-> <<>>, raised |-> FALSE])
         IN  IF acc.raised THEN Out(Raise("TypeError"), acc.gets)
             ELSE Out(Return(reconcile(key, acc.items, acc.errors)), acc.gets)

\* the "all" case: one GET of <family>/all
bulk(family, t_out, outs) ==
    LET r == get_requests(family \o "/all", Absent, t_out, outs[1])
    IN  Out(Return(r.value), <<r.get>>)

\* get_cwe_weakness(ids)
get_cwe_weakness(s, outs) ==
    IF is_all(s) THEN bulk("weakness", ALL_WEAKNESSES_TIMEOUT, outs)
    ELSE collect("weakness", "Weaknesses", "cwe_id", "CWE", digit_ids(s), outs)

\* get_cwe_category(ids)
get_cwe_category(s, outs) ==
    IF is_all(s) THEN bulk("category", DEFAULT_TIMEOUT, outs)
    ELSE collect("category", "Categories", "category_id", "category", nonempty_ids(s), outs)

\* get_cwe_view(ids)
get_cwe_view(s, outs) ==
    IF is_all(s) THEN bulk("view", DEFAULT_TIMEOUT, outs)
    ELSE collect("view", "Views", "view_id", "view", nonempty_ids(s), outs)

\* `if view:`
truthy(x) == x \notin {Absent, ""}

\* the params of a relationship query
view_params(v) == IF truthy(v) THEN [view |-> v] ELSE EmptyDict

\* str(primary).lower()
primary_params(p) ==
    IF p = Absent THEN EmptyDict ELSE [primary |-> IF p = "True" THEN "true" ELSE "false"]

\* "Handle error responses" of the four relationship tools
upstream_error(response, clean_id) ==
    Dict([error |-> response.v.error,
          status_code |-> get(response.v, "status_code", 500),
          cwe_id |-> Str(clean_id)])

\* get_cwe_parents(cwe_id, view)
get_cwe_parents(cwe_id, v, outs) ==
    LET clean_id == clean(cwe_id)
        endpoint == Str(clean_id) \o "/parents"
        r == get_requests(endpoint, view_params(v), DEFAULT_TIMEOUT, outs[1])
        response == r.value
        log == <<r.get>>
    IN  IF ~isdigit(clean_id)
        THEN Out(Return(Dict([error |-> "Invalid CWE ID format: " \o Str(cwe_id),
                              status_code |-> 400])), <<>>)
        ELSE IF in_raises(response) THEN Out(Raise("TypeError"), log)
        ELSE IF contains("error", response)
        THEN IF response.t # "dict" THEN Out(Raise("TypeError"), log)
             ELSE Out(Return(upstream_error(response, clean_id)), log)
        ELSE IF response.t = "list" THEN Out(Return(Dict([Parents |-> response])), log)
        ELSE Out(Return(Dict([error |-> "Unexpected API response format",
                              status_code |-> 500,
                              cwe_id |-> Str(clean_id),
                              details |-> "Expected array but got " \o response.t])), log)

\* get_cwe_children(cwe_id, view)
get_cwe_children(cwe_id, v, outs) ==
    LET clean_id == clean(cwe_id)
        endpoint == Str(clean_id) \o "/children"
        r == get_requests(endpoint, view_params(v), DEFAULT_TIMEOUT, outs[1])
        response == r.value
        log == <<r.get>>
    IN  IF ~isdigit(clean_id)
        THEN Out(Return(Dict([error |-> "Invalid CWE ID format: " \o Str(cwe_id),
                              status_code |-> 400,
                              cwe_id |-> Str(cwe_id)])), <<>>)
        ELSE IF in_raises(response) THEN Out(Raise("TypeError"), log)
        ELSE IF contains("error", response)
        THEN IF response.t # "dict" THEN Out(Raise("TypeError"), log)
             ELSE Out(Return(upstream_error(response, clean_id)), log)
        ELSE IF response.t = "list" THEN Out(Return(Dict([Children |-> response])), log)
        ELSE Out(Return(Dict([error |-> "Unexpected API response format - expected array",
                              status_code |-> 500,
                              cwe_id |-> Str(clean_id),
                              api_response |-> response])), log)

\* the part get_cwe_descendants and get_cwe_ancestors share: a keyed object is expected
keyed(cwe_id, relation, key, params, outs) ==
    LET clean_id == clean(cwe_id)
        endpoint == Str(clean_id) \o "/" \o relation
        r == get_requests(endpoint, params, DEFAULT_TIMEOUT, outs[1])
        response == r.value
        log == <<r.get>>
    IN  IF ~isdigit(clean_id)
        THEN Out(Return(Dict([error |-> "Invalid CWE ID format: " \o Str(cwe_id),
                              status_code |-> 400,
                              cwe_id |-> Str(cwe_id)])), <<>>)
        ELSE IF in_raises(response) THEN Out(Raise("TypeError"), log)
        ELSE IF contains("error", response)
        THEN IF response.t # "dict" THEN Out(Raise("TypeError"), log)
             ELSE Out(Return(upstream_error(response, clean_id)), log)
        ELSE IF contains(key, response) THEN Out(Return(response), log)
        ELSE Out(Return(Dict([error |-> "Unexpected API response format - missing '"
                                        \o key \o "' key",
                              status_code |-> 500,
                              cwe_id |-> Str(clean_id),
                              api_response |-> response])), log)

\* get_cwe_descendants(cwe_id, view)
get_cwe_descendants(cwe_id, v, outs) ==
    keyed(cwe_id, "descendants", "Descendants", view_params(v), outs)

\* get_cwe_ancestors(cwe_id, view, primary)
get_cwe_ancestors(cwe_id, v, p, outs) ==
    keyed(cwe_id, "ancestors", "Ancestors", view_params(v) @@ primary_params(p), outs)

(* ------------------------------ inputs -------------------------------- *)

\* "79", " cwe-89", "", " ", " All", "7" followed by U+00B2, "CCWE-WE-7"
Tokens ==
    { <<"7", "9">>,
      <<" ", "c", "w", "e", "-", "8", "9">>,
      <<>>,
      <<" ">>,
      <<" ", "A", "l", "l">>,
      <<"7", "^2">>,
      <<"C", "C", "W", "E", "-", "W", "E", "-", "7">> }

RECURSIVE join(_)
join(ts) == IF Len(ts) = 1 THEN ts[1] ELSE ts[1] \o <<",">> \o join(Tail(ts))

\* the input strings: up to MaxTokens tokens separated by commas
Inputs == {join(ts) : ts \in UNION {[1..n -> Tokens] : n \in 1..MaxTokens}}

Views == {Absent, "", "1000"}

Primaries == {Absent, "True", "False"}

CollectionTools == {"get_cwe_weakness", "get_cwe_category", "get_cwe_view"}

RelationTools ==
    {"get_cwe_parents", "get_cwe_children", "get_cwe_ancestors", "get_cwe_descendants"}

Tools == {"get_cwe_content_version", "get_cwe_info"} \cup CollectionTools \cup RelationTools

(* --------------------------- state machine ---------------------------- *)

\* a tool has been called with its arguments and has not run yet
Init ==
    /\ tool \in Tools
    /\ ids \in IF tool = "get_cwe_content_version" THEN {<<>>} ELSE Inputs
    /\ view \in IF tool \in RelationTools THEN Views ELSE {Absent}
    /\ primary \in IF tool = "get_cwe_ancestors" THEN Primaries ELSE {Absent}
    /\ pc = "called"
    /\ result = NoResult
    /\ gets = <<>>

\* the tool runs to its end, each of its GETs meeting one of the upstream's answers
Finish(out) ==
    /\ result' = out.ret
    /\ gets' = out.gets
    /\ pc' = "returned"
    /\ UNCHANGED <<tool, ids, view, primary>>

Version ==
    /\ pc = "called" /\ tool = "get_cwe_content_version"
    /\ \E outs \in [1..1 -> Responses("ContentVersion")] : Finish(get_cwe_content_version(outs))

Info ==
    /\ pc = "called" /\ tool = "get_cwe_info"
    /\ \E outs \in [1..Len(digit_ids(ids)) -> Responses("ID")] : Finish(get_cwe_info(ids, outs))

Weakness ==
    /\ pc = "called" /\ tool = "get_cwe_weakness"
    /\ \E outs \in [1..(IF is_all(ids) THEN 1 ELSE Len(digit_ids(ids))) -> CollectionResponses("Weaknesses")] :
           Finish(get_cwe_weakness(ids, outs))

Category ==
    /\ pc = "called" /\ tool = "get_cwe_category"
    /\ \E outs \in [1..(IF is_all(ids) THEN 1 ELSE Len(nonempty_ids(ids))) -> CollectionResponses("Categories")] :
           Finish(get_cwe_category(ids, outs))

View ==
    /\ pc = "called" /\ tool = "get_cwe_view"
    /\ \E outs \in [1..(IF is_all(ids) THEN 1 ELSE Len(nonempty_ids(ids))) -> CollectionResponses("Views")] :
           Finish(get_cwe_view(ids, outs))

Parents ==
    /\ pc = "called" /\ tool = "get_cwe_parents"
    /\ \E outs \in [1..1 -> Responses("Parents")] : Finish(get_cwe_parents(ids, view, outs))

Children ==
    /\ pc = "called" /\ tool = "get_cwe_children"
    /\ \E outs \in [1..1 -> Responses("Children")] : Finish(get_cwe_children(ids, view, outs))

Ancestors ==
    /\ pc = "called" /\ tool = "get_cwe_ancestors"
    /\ \E outs \in [1..1 -> Responses("Ancestors")] :
           Finish(get_cwe_ancestors(ids, view, primary, outs))

Descendants ==
    /\ pc = "called" /\ tool = "get_cwe_descendants"
    /\ \E outs \in [1..1 -> Responses("Descendants")] :
           Finish(get_cwe_descendants(ids, view, outs))

Next ==
    \/ Version \/ Info \/ Weakness \/ Category \/ View
    \/ Parents \/ Children \/ Ancestors \/ Descendants

Spec == Init /\ [][Next]_vars

(* ------------------------- vocabulary of the claims ------------------- *)

Returned == pc = "returned"

\* the string is made only of the decimal digits 0-9
IsDecimal(s) == s # <<>> /\ \A i \in 1..Len(s) : s[i] \in DecimalDigits

\* the raw input, trimmed and lower-cased, is "all"
SaysAll == lower(strip(ids)) = <<"a", "l", "l">>

\* the comma-separated tokens of the input
Pieces == split(ids)

FamilyOf(tl) ==
    CASE tl = "get_cwe_weakness" -> "weakness"
      [] tl = "get_cwe_category" -> "category"
      [] tl = "get_cwe_view" -> "view"

KeyOf(tl) ==
    CASE tl = "get_cwe_weakness" -> "Weaknesses"
      [] tl = "get_cwe_category" -> "Categories"
      [] tl = "get_cwe_view" -> "Views"

TagOf(tl) ==
    CASE tl = "get_cwe_weakness" -> "cwe_id"
      [] tl = "get_cwe_category" -> "category_id"
      [] tl = "get_cwe_view" -> "view_id"

\* the result is a returned mapping
ReturnsMapping == result.kind = "return" /\ result.value.t = "dict"

\* the result is a returned mapping holding status_code `code`
ReturnsStatus(code) ==
    /\ ReturnsMapping
    /\ "status_code" \in DOMAIN result.value.v
    /\ result.value.v.status_code = code

(* ------------------------------- claims ------------------------------- *)

\* C1: every invocation of every tool, whatever the input string and whatever each
\* upstream GET meets, ends by returning a mapping and never by raising.
C1_NoExceptionEscapes == Returned => ReturnsMapping

\* C2: an input format error never reaches the network.  get_cwe_info answers
\* status_code 400 naming the first token whose cleaned form is not all decimal
\* digits and issues no GET; get_cwe_weakness (outside the "all" case) does so when
\* no token cleans to decimal digits, get_cwe_category / get_cwe_view when no token
\* is non-empty after cleaning, and the relationship tools when the cleaned cwe_id
\* is not all decimal digits.
C2_FormatErrorsNeverReachNetwork ==
    Returned =>
        LET bad == {i \in 1..Len(Pieces) : ~IsDecimal(clean(Pieces[i]))}
            first == CHOOSE k \in bad : \A j \in bad : k <= j
        IN  /\ (tool = "get_cwe_info" /\ bad # {}) =>
                   /\ gets = <<>>
                   /\ ReturnsStatus(400)
                   /\ result.value.v.error = "Invalid CWE ID format: " \o Str(Pieces[first])
            /\ (tool = "get_cwe_weakness" /\ ~SaysAll /\ bad = 1..Len(Pieces)) =>
                   gets = <<>> /\ ReturnsStatus(400)
            /\ (tool \in {"get_cwe_category", "get_cwe_view"}
                  /\ \A i \in 1..Len(Pieces) : clean(Pieces[i]) = <<>>) =>
                   gets = <<>> /\ ReturnsStatus(400)
            /\ (tool \in RelationTools /\ ~IsDecimal(clean(ids))) =>
                   gets = <<>> /\ ReturnsStatus(400)

\* a collection tool ran its per-identifier path
PerId == Returned /\ tool \in CollectionTools /\ ~SaysAll

\* the identifiers the per-identifier path of the running tool accepts
Accepted == IF tool = "get_cwe_weakness" THEN digit_ids(ids) ELSE nonempty_ids(ids)

\* the i-th GET met a 2xx object holding a list under the tool's resource key
BroughtList(i) ==
    /\ gets[i].response.status = 200
    /\ gets[i].response.body.t = "dict"
    /\ KeyOf(tool) \in DOMAIN gets[i].response.body.v

\* the items the i-th GET brought
ItemsAt(i) == IF BroughtList(i) THEN gets[i].response.body.v[KeyOf(tool)] ELSE <<>>

\* the items of the first n GETs, in order
RECURSIVE ItemsUpTo(_)
ItemsUpTo(n) == IF n = 0 THEN <<>> ELSE ItemsUpTo(n - 1) \o ItemsAt(n)

\* the indices of the GETs that failed: transport error, non-2xx, body lacking the key
FailedGets == {i \in 1..Len(gets) : ~BroughtList(i)}

\* the identifiers of the failed GETs, in order
RECURSIVE FailedIdsUpTo(_)
FailedIdsUpTo(n) ==
    IF n = 0 THEN <<>>
    ELSE FailedIdsUpTo(n - 1) \o (IF n \in FailedGets THEN <<Str(Accepted[n])>> ELSE <<>>)

\* C3: in get_cwe_weakness / get_cwe_category / get_cwe_view, when one identifier's
\* call brings a non-empty list under the resource key and another identifier's call
\* fails, the result holds the items of the successful calls in input order under the
\* resource key, an errors list with one entry per failed identifier tagged with it,
\* and no top-level status_code.
C3_PartialSuccess ==
    (/\ PerId
     /\ \E i \in 1..Len(gets) : ItemsAt(i) # <<>>
     /\ FailedGets # {})
    => /\ ReturnsMapping
       /\ DOMAIN result.value.v = {KeyOf(tool), "errors"}
       /\ result.value.v[KeyOf(tool)] = ItemsUpTo(Len(gets))
       /\ LET errors == result.value.v.errors
              failed == FailedIdsUpTo(Len(gets))
          IN  /\ Len(errors) = Len(failed)
              /\ \A k \in 1..Len(errors) : errors[k][TagOf(tool)] = failed[k]

\* C4: in get_cwe_weakness / get_cwe_category / get_cwe_view, when the accepted
\* identifiers bring no item at all, the result holds only errors and status_code,
\* and status_code is 404 if an entry of errors has status_code 404, else 500.
C4_TotalFailure ==
    (/\ PerId
     /\ Accepted # <<>>
     /\ ItemsUpTo(Len(gets)) = <<>>)
    => /\ ReturnsMapping
       /\ DOMAIN result.value.v = {"errors", "status_code"}
       /\ LET errors == result.value.v.errors
          IN  result.value.v.status_code =
                  IF \E k \in 1..Len(errors) : errors[k].status_code = 404 THEN 404 ELSE 500

\* C5: get_cwe_info, when every token cleans to decimal digits, returns a mapping
\* whose keys are exactly the requested identifiers, each holding the upstream body
\* returned for it or the error descriptor of its failed call with cwe_id added,
\* whatever the upstream calls met.
C5_InfoMapsEveryId ==
    (/\ Returned
     /\ tool = "get_cwe_info"
     /\ \A i \in 1..Len(Pieces) : IsDecimal(clean(Pieces[i])))
    => /\ ReturnsMapping
       /\ DOMAIN result.value.v = {Str(clean(Pieces[i])) : i \in 1..Len(Pieces)}
       /\ \A i \in 1..Len(Pieces) :
              LET id == Str(clean(Pieces[i]))
              IN  \E j \in 1..Len(gets) :
                      /\ gets[j].url = BASE_URL \o id
                      /\ IF gets[j].response.status = 200
                         THEN result.value.v[id] = gets[j].response.body
                         ELSE result.value.v[id] =
                                  Dict(("cwe_id" :> id) @@
                                       get_requests(id, Absent, DEFAULT_TIMEOUT,
                                                    gets[j].response).value.v)

\* C7: get_cwe_parents / get_cwe_children with a valid cwe_id: a 2xx body that is an
\* object yields a format error with status_code 500, cwe_id the cleaned identifier
\* and the name of the observed type; a 2xx body that is an array yields exactly
\* {Parents: body} / {Children: body}.
C7_ArrayShapeValidation ==
    (/\ Returned
     /\ tool \in {"get_cwe_parents", "get_cwe_children"}
     /\ IsDecimal(clean(ids))
     /\ Len(gets) = 1
     /\ gets[1].response.status = 200)
    => LET body == gets[1].response.body
       IN  /\ body.t = "dict" =>
                  /\ ReturnsStatus(500)
                  /\ "cwe_id" \in DOMAIN result.value.v
                  /\ result.value.v.cwe_id = Str(clean(ids))
                  /\ "details" \in DOMAIN result.value.v
                  /\ result.value.v.details = "Expected array but got " \o body.t
           /\ body.t = "list" =>
                  result = Return(Dict(IF tool = "get_cwe_parents"
                                       THEN [Parents |-> body] ELSE [Children |-> body]))

\* the tokens the claims call accepted: cleaning to decimal digits for get_cwe_info
\* and get_cwe_weakness, non-empty after cleaning for get_cwe_category / get_cwe_view
AcceptedTokens ==
    LET decimal(c) == IsDecimal(c)
        nonempty(c) == c # <<>>
    IN  IF tool \in {"get_cwe_info", "get_cwe_weakness"}
        THEN SelectSeq(cleaned(ids), decimal)
        ELSE SelectSeq(cleaned(ids), nonempty)

\* the path get_cwe_info / a collection tool asks for identifier `id`
PathOf(id) == IF tool = "get_cwe_info" THEN id ELSE FamilyOf(tool) \o "/" \o id

\* C9: a per-identifier invocation of get_cwe_info (its tokens all valid),
\* get_cwe_weakness, get_cwe_category or get_cwe_view issues exactly one GET per
\* accepted token, in input order, whatever the earlier GETs met.
C9_OneGetPerAcceptedToken ==
    (/\ Returned
     /\ \/ tool = "get_cwe_info" /\ \A i \in 1..Len(Pieces) : IsDecimal(clean(Pieces[i]))
        \/ tool \in CollectionTools /\ ~SaysAll)
    => /\ Len(gets) = Len(AcceptedTokens)
       /\ \A i \in 1..Len(gets) : gets[i].url = BASE_URL \o PathOf(Str(AcceptedTokens[i]))

\* C10: in the per-identifier path of get_cwe_weakness / get_cwe_category /
\* get_cwe_view, when every accepted identifier's call met a 2xx object holding a
\* list (of any length) under the resource key, the result is {ResourceKey: list}
\* alone; and an errors list in a result is never empty.
C10_FailureImpliesFailedId ==
    /\ (/\ PerId
        /\ Accepted # <<>>
        /\ Len(gets) = Len(Accepted)
        /\ FailedGets = {})
       => result = Return(Dict(KeyOf(tool) :> ItemsUpTo(Len(gets))))
    /\ (PerId /\ ReturnsMapping /\ "errors" \in DOMAIN result.value.v)
       => result.value.v.errors # <<>>

\* C6: when the trimmed, lower-cased input of get_cwe_weakness / get_cwe_category /
\* get_cwe_view is "all", the invocation issues exactly one GET, of weakness/all,
\* category/all or view/all, with timeout 60 for weaknesses and 15 otherwise, and
\* returns what that call gave; on any other input no GET of <family>/all is issued.
C6_BulkBypass ==
    (Returned /\ tool \in CollectionTools) =>
        LET all == FamilyOf(tool) \o "/all"
        IN  IF SaysAll
            THEN /\ Len(gets) = 1
                 /\ gets[1].url = BASE_URL \o all
                 /\ gets[1].timeout = IF tool = "get_cwe_weakness" THEN 60 ELSE 15
                 /\ result = Return(get_requests(all, Absent, gets[1].timeout,
                                                  gets[1].response).value)
            ELSE \A i \in 1..Len(gets) : gets[i].url # BASE_URL \o all

\* get_cwe_category(" All") has returned after its one bulk GET
C6_Witness ==
    /\ Returned
    /\ tool = "get_cwe_category"
    /\ SaysAll
    /\ ids # <<"a", "l", "l">>
    /\ Len(gets) = 1
    /\ gets[1].timeout = 15
    /\ result.kind = "return"

\* C8: normalisation (trim, upper-case, remove every "CWE-") leaves a token made only
\* of decimal digits unchanged, and is idempotent on every token whose normalisation
\* is all digits; so the identifier a tool asks the upstream for is a fixed point.
C8_NormalizeIdempotentOnDigits ==
    LET tokens == Pieces
        once == [i \in 1..Len(tokens) |-> clean(tokens[i])]
        twice == [i \in 1..Len(tokens) |-> clean(once[i])]
    IN  /\ \A i \in 1..Len(tokens) :
               /\ IsDecimal(tokens[i]) => once[i] = tokens[i]
               /\ isdigit(once[i]) => twice[i] = once[i]
        /\ (Returned /\ tool = "get_cwe_info") =>
               \A j \in 1..Len(gets) :
                   \E i \in 1..Len(tokens) :
                       /\ gets[j].url = BASE_URL \o Str(once[i])
                       /\ gets[j].url = BASE_URL \o Str(twice[i])

\* get_cwe_info(" cwe-89") has asked the upstream for 89
C8_Witness ==
    /\ Returned
    /\ tool = "get_cwe_info"
    /\ \E i \in 1..Len(Pieces) :
           /\ clean(Pieces[i]) # Pieces[i]
           /\ IsDecimal(clean(Pieces[i]))
           /\ \E j \in 1..Len(gets) : gets[j].url = BASE_URL \o Str(clean(Pieces[i]))

====
